---- MODULE Spec2Model ----
(***************************************************************************)
(* Model of package ddb (aws/ddb): the DynamoDB convenience wrappers        *)
(* GetOne, UpdateIfExistsOrFail, ScanAll, QueryAll, GetQueryCount and the   *)
(* concurrent QueryWithPagination, run against a paged result set.          *)
(*                                                                          *)
(* A cursor (ExclusiveStartKey / LastEvaluatedKey) is a number: 0 is the    *)
(* nil map, k > 0 is the LastEvaluatedKey returned with page k.  An item of *)
(* the result set is its position 1..N in the full list of matches.  An     *)
(* error is a record [ctx, cause]: cause names the underlying failure, ctx  *)
(* the fmt.Errorf prefix wrapped around it ("" when unwrapped).             *)
(***************************************************************************)
EXTENDS Integers, Sequences, FiniteSets, TLC

\* ---------------------------------------------------------------- bounds
MaxPages == 2
MaxPageSize == 2
MaxLimit == 2

\* ------------------------------------------------------------ vocabulary
NilKey == 0
NoErr == [ctx |-> "", cause |-> ""]
ErrNotFound == [ctx |-> "", cause |-> "Item not found"]
ServerErrors == {"ErrCanceled"}
SelectCount == "COUNT"
Selects == {"ALL_ATTRIBUTES", SelectCount}
Tasks == {"fetch", "count"}
NilItem == 0
TableItems == {NilItem, 1, 2}

VARIABLES
  op,                \* the wrapper the caller invokes
  pages,             \* server: sizes of the successive pages of the result set
  tableItem,         \* server: the item stored under the request's key (NilItem: none)
  input,             \* the caller's request object (*PaginationOps, *QueryInput, *ScanInput)
  orig,              \* value of the request object when the wrapper was entered
  pc,                \* position of main, fetch task, count task, closer goroutine
  lastEvaluatedKey,  \* local of the fetch loop
  items,             \* captured slice items
  count,             \* captured int count
  sending,           \* errChan: the value each blocked sender is offering
  wg,                \* sync.WaitGroup counter
  closed,            \* errChan has been closed
  errs,              \* errors collected by the range loop
  ret,               \* what the wrapper returned
  calls,             \* every request handed to the SDK client by the current call, in order
  prev               \* what the preceding call on the same request object returned

vars == <<op, pages, tableItem, input, orig, pc, lastEvaluatedKey, items,
          count, sending, wg, closed, errs, ret, calls, prev>>

\* ------------------------------------------------- the client collaborator
\* The SDK client is external.  A result set is a chain of pages; a request
\* with cursor c is answered with page c+1.  A count-only Query reports the
\* number of matches from its cursor on and carries no items.
\* the zero value of a response
NoOutput == [Items |-> <<>>, Count |-> 0, LastEvaluatedKey |-> NilKey, Item |-> NilItem]

RECURSIVE SumSizes(_, _)
SumSizes(ps, n) == IF n = 0 THEN 0 ELSE ps[n] + SumSizes(ps, n - 1)

TotalMatches == SumSizes(pages, Len(pages))

PageItems(c) == [i \in 1..pages[c + 1] |-> SumSizes(pages, c) + i]

NextKey(c) == IF c + 1 < Len(pages) THEN c + 1 ELSE NilKey

ClientQuery(req) ==
  LET c == req.ExclusiveStartKey
      its == IF req.Select = SelectCount THEN <<>> ELSE PageItems(c)
  IN [Items |-> its,
      Count |-> IF req.Select = SelectCount
                  THEN TotalMatches - SumSizes(pages, c)
                  ELSE Len(its),
      LastEvaluatedKey |-> NextKey(c), Item |-> NilItem]

ClientScan(req) ==
  [Items |-> PageItems(req.ExclusiveStartKey),
   Count |-> pages[req.ExclusiveStartKey + 1],
   LastEvaluatedKey |-> NextKey(req.ExclusiveStartKey), Item |-> NilItem]

ClientGetItem == [NoOutput EXCEPT !.Item = tableItem]

\* the embedded dynamodb.QueryInput of a PaginationOps
QueryInputOf(in) == [ExclusiveStartKey |-> in.ExclusiveStartKey, Select |-> in.Select]

\* calls records each request handed to the client and how it was answered:
\* err is "" for a response, else the failure; Count, Item and
\* LastEvaluatedKey are those of the response
LogCall(api, task, req, err, out) ==
  Append(calls, [api |-> api, task |-> task,
                 ExclusiveStartKey |-> req.ExclusiveStartKey,
                 Select |-> req.Select, err |-> err,
                 Count |-> out.Count, Item |-> out.Item,
                 LastEvaluatedKey |-> out.LastEvaluatedKey])

NotReturned ==
  [returned |-> FALSE, resultNil |-> TRUE, Items |-> <<>>, Item |-> NilItem,
   Count |-> 0, Skip |-> 0, Limit |-> 0, errs |-> <<>>]

\* ------------------------------------------------------------------ Init
RECURSIVE PageChains(_)
PageChains(n) ==
  IF n = 0 THEN {<<>>}
  ELSE LET shorter == PageChains(n - 1)
       IN shorter \cup {Append(ps, s) : ps \in {q \in shorter : Len(q) = n - 1},
                                        s \in 0..MaxPageSize}

PageConfigs == PageChains(MaxPages) \ {<<>>}

Idle ==
  /\ orig = input
  /\ pc = [main |-> "idle", fetch |-> "off", count |-> "off", closer |-> "off"]
  /\ lastEvaluatedKey = NilKey
  /\ items = <<>>
  /\ count = 0
  /\ sending = [t \in Tasks |-> NoErr]
  /\ wg = 0
  /\ closed = FALSE
  /\ errs = <<>>
  /\ ret = NotReturned
  /\ calls = <<>>
  /\ prev = NotReturned

InitPaged ==
  /\ op \in {"QueryWithPagination", "GetQueryCount", "ScanAll", "QueryAll"}
  /\ pages \in PageConfigs
  /\ tableItem = NilItem
  /\ input \in [ExclusiveStartKey : {NilKey, Len(pages) - 1}, Select : Selects,
                Skip : 0..MaxLimit, Limit : -1..MaxLimit]
  /\ op # "QueryWithPagination" => input.Skip = 0 /\ input.Limit = 0
  /\ op = "ScanAll" => input.Select = "ALL_ATTRIBUTES"

\* the scenario of the specification: ten matches in pages of 3 and 7
InitScenario ==
  /\ op = "QueryWithPagination"
  /\ pages = <<3, 7>>
  /\ tableItem = NilItem
  /\ input = [ExclusiveStartKey |-> NilKey, Select |-> "ALL_ATTRIBUTES", Skip |-> 2, Limit |-> 5]

InitItem ==
  /\ op \in {"GetOne", "UpdateIfExistsOrFail"}
  /\ pages = <<0>>
  /\ tableItem \in TableItems
  /\ input = [ExclusiveStartKey |-> NilKey, Select |-> "ALL_ATTRIBUTES", Skip |-> 0, Limit |-> 0]

Init == (InitPaged \/ InitScenario \/ InitItem) /\ Idle

\* ------------------------------------------------------ pure code helpers
Wrap(ctx, e) == [ctx |-> ctx, cause |-> e]

\* slip: the page is appended whole, whatever the remaining budget
TakeLen_whole(pageLen, have, limit) == pageLen

\* how many items of the page are appended
TakeLen(pageLen, have, limit) ==
  IF pageLen + have > limit THEN limit - have ELSE pageLen

\* output.Items[:l] faults unless 0 <= l <= len(output.Items)
SliceFaults(l, pageLen) == l < 0 \/ l > pageLen


\* slip: the page is put in front of the accumulated items
Accumulate_prepend(its, page) == page \o its

\* items = append(items, page...)
Accumulate(its, page) == its \o page


\* slip: the exit test uses > where the code has >=
LoopStops_strict(lek, have, limit) == lek = NilKey \/ have > limit

\* slip: the loop goes on for as long as the server has more
LoopStops_cursorOnly(lek, have, limit) == lek = NilKey

\* the fetch loop's exit test
LoopStops(lek, have, limit) == lek = NilKey \/ have >= limit

\* discard the first Skip accumulated items
ApplySkip(its, skip) ==
  IF skip >= Len(its) THEN <<>> ELSE SubSeq(its, skip + 1, Len(its))


\* slip: the caller's Select mode is sent as it is
ForceCount_keep(req) == req

\* GetQueryCount forces Select on its by-value copy of the request
ForceCount(req) ==
  IF req.Select # SelectCount THEN [req EXCEPT !.Select = SelectCount] ELSE req

\* slip: GetQueryCount works on the caller's request itself
PassedByValue_shared(in) == [in EXCEPT !.Select = SelectCount]

\* the caller's request after GetQueryCount ran on its by-value copy
PassedByValue(in) == in

\* what GetQueryCount returns for a failure e (e # "") or a response out
CountResult(e, out) ==
  IF e # "" THEN [c |-> 0, err |-> Wrap("", e)] ELSE [c |-> out.Count, err |-> NoErr]


\* slip: only one wg.Add(1) is waited for
WaitReturns_one == wg <= 1

\* wg.Wait() returns
WaitReturns == wg = 0


\* slip: a single failure is not treated as a failure
PaginationReturn_lenient ==
  IF Len(errs) > 1
    THEN [NotReturned EXCEPT !.returned = TRUE, !.errs = errs]
    ELSE [returned |-> TRUE, resultNil |-> FALSE, Items |-> items, Item |-> NilItem,
          Count |-> count, Skip |-> input.Skip, Limit |-> input.Limit, errs |-> <<>>]

\* the value QueryWithPagination hands back once the range loop has ended
PaginationReturn ==
  IF Len(errs) > 0
    THEN [NotReturned EXCEPT !.returned = TRUE, !.errs = errs]
    ELSE [returned |-> TRUE, resultNil |-> FALSE, Items |-> items, Item |-> NilItem,
          Count |-> count, Skip |-> input.Skip, Limit |-> input.Limit, errs |-> <<>>]

\* a panic in a goroutine ends the process
Crashed == pc.fetch = "panic"

Returned(r) == /\ ret' = r
               /\ pc' = [pc EXCEPT !.main = "returned"]

\* ---------------------------------------------------- QueryWithPagination
\* locals are created, both tasks and the closer goroutine are started
QueryWithPagination ==
  /\ op = "QueryWithPagination"
  /\ pc.main = "idle"
  /\ orig' = input
  /\ items' = <<>>
  /\ count' = 0
  /\ errs' = <<>>
  /\ wg' = 2
  /\ closed' = FALSE
  /\ lastEvaluatedKey' = NilKey
  /\ sending' = [t \in Tasks |-> NoErr]
  /\ pc' = [main |-> "range", fetch |-> "loop", count |-> "start", closer |-> "wait"]
  /\ UNCHANGED <<prev, op, pages, tableItem, input, ret, calls>>

\* one iteration of the fetch loop whose Query fails
FetchQueryFails ==
  /\ pc.fetch = "loop" /\ ~Crashed
  /\ input' = [input EXCEPT !.ExclusiveStartKey = lastEvaluatedKey]
  /\ \E e \in ServerErrors :
       /\ calls' = LogCall("Query", "fetch", QueryInputOf(input'), e, NoOutput)
       /\ sending' = [sending EXCEPT !.fetch = Wrap("error querying dynamo", e)]
  /\ pc' = [pc EXCEPT !.fetch = "send"]
  /\ UNCHANGED <<prev, op, pages, tableItem, orig, lastEvaluatedKey, items, count,
                 wg, closed, errs, ret>>

\* one iteration of the fetch loop whose Query succeeds
FetchPage ==
  /\ pc.fetch = "loop" /\ ~Crashed
  /\ LET in2 == [input EXCEPT !.ExclusiveStartKey = lastEvaluatedKey]
         out == ClientQuery(QueryInputOf(in2))
         l   == TakeLen(Len(out.Items), Len(items), in2.Limit)
         acc == Accumulate(items, SubSeq(out.Items, 1, l))
     IN /\ input' = in2
        /\ calls' = LogCall("Query", "fetch", QueryInputOf(in2), "", out)
        /\ IF SliceFaults(l, Len(out.Items))
             THEN /\ pc' = [pc EXCEPT !.fetch = "panic"]
                  /\ UNCHANGED <<items, lastEvaluatedKey>>
             ELSE /\ items' = acc
                  /\ IF LoopStops(out.LastEvaluatedKey, Len(acc), in2.Limit)
                       THEN /\ pc' = [pc EXCEPT !.fetch = "skip"]
                            /\ UNCHANGED lastEvaluatedKey
                       ELSE /\ pc' = pc
                            /\ lastEvaluatedKey' = out.LastEvaluatedKey
  /\ UNCHANGED <<prev, op, pages, tableItem, orig, count, sending, wg, closed, errs, ret>>

\* skip is applied, then the task offers nil on errChan
FetchSkip ==
  /\ pc.fetch = "skip" /\ ~Crashed
  /\ items' = ApplySkip(items, input.Skip)
  /\ sending' = [sending EXCEPT !.fetch = NoErr]
  /\ pc' = [pc EXCEPT !.fetch = "send"]
  /\ UNCHANGED <<prev, op, pages, tableItem, input, orig, lastEvaluatedKey, count,
                 wg, closed, errs, ret, calls>>

\* the count task copies input.QueryInput as it starts; GetQueryCount's
\* single Query fails
CountFails ==
  /\ pc.count = "start" /\ ~Crashed
  /\ \E e \in ServerErrors :
       /\ calls' = LogCall("Query", "count", ForceCount(QueryInputOf(input)), e, NoOutput)
       /\ sending' = [sending EXCEPT !.count =
                        Wrap("error getting query count", CountResult(e, NoOutput).err.cause)]
  /\ pc' = [pc EXCEPT !.count = "send"]
  /\ input' = PassedByValue(input)
  /\ UNCHANGED <<prev, op, pages, tableItem, orig, lastEvaluatedKey, items, count,
                 wg, closed, errs, ret>>

\* the count task copies input.QueryInput as it starts; GetQueryCount's
\* single Query succeeds
CountSucceeds ==
  /\ pc.count = "start" /\ ~Crashed
  /\ LET req == ForceCount(QueryInputOf(input))
         out == ClientQuery(req)
     IN /\ calls' = LogCall("Query", "count", req, "", out)
        /\ count' = CountResult("", out).c
  /\ sending' = [sending EXCEPT !.count = NoErr]
  /\ pc' = [pc EXCEPT !.count = "send"]
  /\ input' = PassedByValue(input)
  /\ UNCHANGED <<prev, op, pages, tableItem, orig, lastEvaluatedKey, items,
                 wg, closed, errs, ret>>

\* the range loop takes the value a blocked sender offers
Receive(t) ==
  /\ pc.main = "range" /\ ~Crashed
  /\ pc[t] = "send"
  /\ ~closed
  /\ errs' = IF sending[t] # NoErr THEN Append(errs, sending[t]) ELSE errs
  /\ pc' = [pc EXCEPT ![t] = "sent"]
  /\ UNCHANGED <<prev, op, pages, tableItem, input, orig, lastEvaluatedKey, items, count,
                 sending, wg, closed, ret, calls>>

\* the deferred wg.Done() of a task whose send completed
WgDone(t) ==
  /\ pc[t] = "sent" /\ ~Crashed
  /\ wg' = wg - 1
  /\ pc' = [pc EXCEPT ![t] = "done"]
  /\ UNCHANGED <<prev, op, pages, tableItem, input, orig, lastEvaluatedKey, items, count,
                 sending, closed, errs, ret, calls>>

\* the closer goroutine: wg.Wait(), then close(errChan)
Closer ==
  /\ pc.closer = "wait" /\ ~Crashed
  /\ WaitReturns
  /\ closed' = TRUE
  /\ pc' = [pc EXCEPT !.closer = "done"]
  /\ UNCHANGED <<prev, op, pages, tableItem, input, orig, lastEvaluatedKey, items, count,
                 sending, wg, errs, ret, calls>>

\* the range loop ends on the closed channel; the function returns
PaginationReturns ==
  /\ pc.main = "range" /\ ~Crashed
  /\ closed
  /\ \A t \in Tasks : pc[t] # "send"
  /\ Returned(PaginationReturn)
  /\ UNCHANGED <<prev, op, pages, tableItem, input, orig, lastEvaluatedKey, items, count,
                 sending, wg, closed, errs, calls>>

\* ----------------------------------------------------------- GetQueryCount
\* called on its own; the single Query fails
GetQueryCountFails ==
  /\ op = "GetQueryCount" /\ pc.main = "idle"
  /\ \E e \in ServerErrors :
       LET r == CountResult(e, NoOutput)
       IN /\ calls' = LogCall("Query", "main", ForceCount(QueryInputOf(input)), e, NoOutput)
          /\ Returned([NotReturned EXCEPT !.returned = TRUE, !.resultNil = FALSE,
                                          !.Count = r.c, !.errs = <<r.err>>])
  /\ input' = PassedByValue(input)
  /\ UNCHANGED <<prev, op, pages, tableItem, orig, lastEvaluatedKey, items, count,
                 sending, wg, closed, errs>>

\* called on its own; the single Query succeeds
GetQueryCountSucceeds ==
  /\ op = "GetQueryCount" /\ pc.main = "idle"
  /\ LET req == ForceCount(QueryInputOf(input))
         out == ClientQuery(req)
     IN /\ calls' = LogCall("Query", "main", req, "", out)
        /\ Returned([NotReturned EXCEPT !.returned = TRUE, !.resultNil = FALSE,
                                        !.Count = CountResult("", out).c])
  /\ input' = PassedByValue(input)
  /\ UNCHANGED <<prev, op, pages, tableItem, orig, lastEvaluatedKey, items, count,
                 sending, wg, closed, errs>>

\* ------------------------------------------------------- ScanAll, QueryAll
\* slip: the loop resumes from the cursor the request object holds
AllEnter_resume(o) ==
  /\ op = o /\ pc.main = "idle"
  /\ orig' = input
  /\ items' = <<>>
  /\ lastEvaluatedKey' = input.ExclusiveStartKey
  /\ pc' = [pc EXCEPT !.main = "loop"]
  /\ UNCHANGED <<prev, op, pages, tableItem, input, count, sending, wg, closed, errs,
                 ret, calls>>

\* the locals of the loop
AllEnter(o) ==
  /\ op = o /\ pc.main = "idle"
  /\ orig' = input
  /\ items' = <<>>
  /\ lastEvaluatedKey' = NilKey
  /\ pc' = [pc EXCEPT !.main = "loop"]
  /\ UNCHANGED <<prev, op, pages, tableItem, input, count, sending, wg, closed, errs,
                 ret, calls>>

\* an iteration whose request fails: return nil, err
AllFails(o, api) ==
  /\ op = o /\ pc.main = "loop"
  /\ input' = [input EXCEPT !.ExclusiveStartKey = lastEvaluatedKey]
  /\ \E e \in ServerErrors :
       /\ calls' = LogCall(api, "main", input', e, NoOutput)
       /\ Returned([NotReturned EXCEPT !.returned = TRUE, !.errs = <<Wrap("", e)>>])
  /\ UNCHANGED <<prev, op, pages, tableItem, orig, lastEvaluatedKey, items, count,
                 sending, wg, closed, errs>>

\* an iteration whose request is answered with out
AllPage(o, api, out) ==
  /\ op = o /\ pc.main = "loop"
  /\ input' = [input EXCEPT !.ExclusiveStartKey = lastEvaluatedKey]
  /\ calls' = LogCall(api, "main", input', "", out)
  /\ items' = Accumulate(items, out.Items)
  /\ IF out.LastEvaluatedKey = NilKey
       THEN /\ Returned([NotReturned EXCEPT !.returned = TRUE, !.resultNil = FALSE,
                                            !.Items = items'])
            /\ UNCHANGED lastEvaluatedKey
       ELSE /\ lastEvaluatedKey' = out.LastEvaluatedKey
            /\ UNCHANGED <<pc, ret>>
  /\ UNCHANGED <<prev, op, pages, tableItem, orig, count, sending, wg, closed, errs>>

ScanAll == AllEnter("ScanAll")

ScanAllFails == AllFails("ScanAll", "Scan")

ScanAllPage ==
  AllPage("ScanAll", "Scan",
          ClientScan([input EXCEPT !.ExclusiveStartKey = lastEvaluatedKey]))

QueryAll == AllEnter("QueryAll")

QueryAllFails == AllFails("QueryAll", "Query")

QueryAllPage ==
  AllPage("QueryAll", "Query",
          ClientQuery([input EXCEPT !.ExclusiveStartKey = lastEvaluatedKey]))


\* slip: a response without an item is passed on as a success
GetOneResult_silent(e, out) ==
  IF e # "" THEN [item |-> NilItem, err |-> Wrap("", e)]
  ELSE [item |-> out.Item, err |-> NoErr]

\* ------------------------------------------- GetOne, UpdateIfExistsOrFail
\* what GetOne returns for a GetItem failure e (e # "") or a response out
GetOneResult(e, out) ==
  IF e # "" THEN [item |-> NilItem, err |-> Wrap("", e)]
  ELSE IF out.Item = NilItem THEN [item |-> NilItem, err |-> ErrNotFound]
  ELSE [item |-> out.Item, err |-> NoErr]

GetOneReturn(r) ==
  [NotReturned EXCEPT !.returned = TRUE, !.resultNil = (r.item = NilItem),
                      !.Item = r.item,
                      !.errs = IF r.err = NoErr THEN <<>> ELSE <<r.err>>]

\* GetItem fails
GetOneFails ==
  /\ op = "GetOne" /\ pc.main = "idle"
  /\ \E e \in ServerErrors :
       /\ calls' = LogCall("GetItem", "main", input, e, NoOutput)
       /\ Returned(GetOneReturn(GetOneResult(e, NoOutput)))
  /\ UNCHANGED <<prev, op, pages, tableItem, input, orig, lastEvaluatedKey, items, count,
                 sending, wg, closed, errs>>

\* GetItem answers
GetOne ==
  /\ op = "GetOne" /\ pc.main = "idle"
  /\ calls' = LogCall("GetItem", "main", input, "", ClientGetItem)
  /\ Returned(GetOneReturn(GetOneResult("", ClientGetItem)))
  /\ UNCHANGED <<prev, op, pages, tableItem, input, orig, lastEvaluatedKey, items, count,
                 sending, wg, closed, errs>>


\* slip: NotFound does not stop the update
CheckPasses_upsert(r) == r.err = NoErr \/ r.err = ErrNotFound

\* does the existence read let the update go ahead
CheckPasses(r) == r.err = NoErr

\* the existence read of UpdateIfExistsOrFail
UpdateIfExistsOrFail ==
  /\ op = "UpdateIfExistsOrFail" /\ pc.main = "idle"
  /\ \E e \in ServerErrors \cup {""} :
       LET out == IF e = "" THEN ClientGetItem ELSE NoOutput
           r   == GetOneResult(e, out)
       IN /\ calls' = LogCall("GetItem", "main", input, e, out)
          /\ IF CheckPasses(r)
               THEN /\ pc' = [pc EXCEPT !.main = "update"]
                    /\ UNCHANGED ret
               ELSE Returned([NotReturned EXCEPT !.returned = TRUE, !.errs = <<r.err>>])
  /\ UNCHANGED <<prev, op, pages, tableItem, input, orig, lastEvaluatedKey, items, count,
                 sending, wg, closed, errs>>

\* slip: an update that found no item is reported as NotFound
UpdateOutcome_recheck(e, old) ==
  IF old = NilItem THEN <<ErrNotFound>>
  ELSE IF e = "" THEN <<>> ELSE <<Wrap("", e)>>

\* what UpdateIfExistsOrFail returns after UpdateItem failed with e (e # "")
\* or succeeded, old being the item the update found under the key
UpdateOutcome(e, old) == IF e = "" THEN <<>> ELSE <<Wrap("", e)>>

\* the UpdateItem call and its outcome
UpdateItem ==
  /\ op = "UpdateIfExistsOrFail" /\ pc.main = "update"
  /\ \E e \in ServerErrors \cup {""} :
       /\ calls' = LogCall("UpdateItem", "main", input, e,
                           [NoOutput EXCEPT !.Item = tableItem])
       /\ tableItem' = IF e = "" THEN 2 ELSE tableItem
       /\ Returned([NotReturned EXCEPT !.returned = TRUE,
                                       !.errs = UpdateOutcome(e, tableItem)])
  /\ UNCHANGED <<prev, op, pages, input, orig, lastEvaluatedKey, items, count,
                 sending, wg, closed, errs>>

\* another caller deletes the item under the same key
DeleteItem ==
  /\ op = "UpdateIfExistsOrFail" /\ pc.main \in {"idle", "update"}
  /\ tableItem # NilItem
  /\ tableItem' = NilItem
  /\ calls' = LogCall("DeleteItem", "other", input, "", NoOutput)
  /\ UNCHANGED <<prev, op, pages, input, orig, pc, lastEvaluatedKey, items, count,
                 sending, wg, closed, errs, ret>>

Next ==
  \/ QueryWithPagination
  \/ FetchQueryFails
  \/ FetchPage
  \/ FetchSkip
  \/ CountFails
  \/ CountSucceeds
  \/ \E t \in Tasks : Receive(t)
  \/ \E t \in Tasks : WgDone(t)
  \/ Closer
  \/ PaginationReturns
  \/ GetQueryCountFails
  \/ GetQueryCountSucceeds
  \/ ScanAll
  \/ ScanAllFails
  \/ ScanAllPage
  \/ QueryAll
  \/ QueryAllFails
  \/ QueryAllPage
  \/ GetOneFails
  \/ GetOne
  \/ UpdateIfExistsOrFail
  \/ UpdateItem
  \/ DeleteItem

Spec == Init /\ [][Next]_vars

\* ------------------------------------------------ a second call by the caller
\* the caller invokes the same wrapper again with the same request object,
\* which holds whatever the first call left in it
CallAgain(wrappers) ==
  /\ op \in wrappers
  /\ pc.main = "returned"
  /\ ~prev.returned
  /\ prev' = ret
  /\ ret' = NotReturned
  /\ orig' = input
  /\ pc' = [main |-> "idle", fetch |-> "off", count |-> "off", closer |-> "off"]
  /\ lastEvaluatedKey' = NilKey
  /\ items' = <<>>
  /\ count' = 0
  /\ sending' = [t \in Tasks |-> NoErr]
  /\ wg' = 0
  /\ closed' = FALSE
  /\ errs' = <<>>
  /\ calls' = <<>>
  /\ UNCHANGED <<op, pages, tableItem, input>>

ScanAgain == CallAgain({"ScanAll", "QueryAll"})

PaginateAgain == CallAgain({"QueryWithPagination"})

NextScanTwice == Next \/ ScanAgain

NextPaginateTwice == Next \/ PaginateAgain

SpecScanTwice == Init /\ [][NextScanTwice]_vars

SpecPaginateTwice == Init /\ [][NextPaginateTwice]_vars

\* ================================================================ claims
Range(f) == {f[i] : i \in DOMAIN f}
Min(a, b) == IF a < b THEN a ELSE b
Max(a, b) == IF a > b THEN a ELSE b
CallsOf(task) == SelectSeq(calls, LAMBDA c : c.task = task)
FailedCalls(task) == {c \in Range(calls) : c.task = task /\ c.err # ""}
Paginating == op = "QueryWithPagination"
Succeeded == Paginating /\ ret.returned /\ ret.errs = <<>>

\* C1: the request sent by the count task is the caller's original request:
\* its ExclusiveStartKey is the value the request held when
\* QueryWithPagination was called, never one written by the fetch loop.
C1_CountRequestIsOriginal ==
  Paginating =>
    \A i \in 1..Len(calls) :
      calls[i].task = "count" => calls[i].ExclusiveStartKey = orig.ExclusiveStartKey

MatchList == IF orig.Select = SelectCount THEN <<>> ELSE [i \in 1..TotalMatches |-> i]
Window(P, s, l) == SubSeq(P, s + 1, Min(l, Len(P)))

\* C3: a successful call with Skip s >= 0 and Limit l >= 0 returns the
\* elements of P at positions s .. min(l, N) - 1, so at most max(l - s, 0)
\* items; pages of 3 and 7 with Skip 2 and Limit 5 give the items at
\* positions 2, 3, 4 and count 10.
C3_WindowAndScenario ==
  (Succeeded /\ orig.Limit >= 0) =>
    /\ ret.Items = Window(MatchList, orig.Skip, orig.Limit)
    /\ Len(ret.Items) <= Max(orig.Limit - orig.Skip, 0)
    /\ (pages = <<3, 7>> /\ orig.Skip = 2 /\ orig.Limit = 5
          /\ orig.Select # SelectCount /\ orig.ExclusiveStartKey = NilKey)
       => (ret.Items = <<3, 4, 5>> /\ ret.Count = 10)

\* the part of C3 about items alone
ItemsAreWindow ==
  (Succeeded /\ orig.Limit >= 0) =>
    /\ ret.Items = Window(MatchList, orig.Skip, orig.Limit)
    /\ Len(ret.Items) <= Max(orig.Limit - orig.Skip, 0)

TaskErrors ==
  {Wrap("error querying dynamo", c.err) : c \in FailedCalls("fetch")}
    \cup {Wrap("error getting query count", c.err) : c \in FailedCalls("count")}

\* C4: QueryWithPagination fails exactly when a task failed, then returns a
\* nil result, and the reported error holds the failure of each failed task
\* (the count error alone, the fetch error alone, or both).
C4_ErrorsJoined ==
  (Paginating /\ ret.returned) =>
    IF TaskErrors # {}
      THEN /\ ret.resultNil /\ ret.Items = <<>> /\ ret.Count = 0
           /\ Range(ret.errs) = TaskErrors
           /\ Len(ret.errs) = Cardinality(TaskErrors)
      ELSE ~ret.resultNil /\ ret.errs = <<>>

C4_Witness ==
  /\ Paginating /\ ret.returned
  /\ FailedCalls("fetch") # {} /\ FailedCalls("count") # {}
  /\ Len(ret.errs) = 2

\* the items of the pages from cursor c to the first page without a cursor
RECURSIVE ChainItems(_)
ChainItems(c) ==
  LET req == [ExclusiveStartKey |-> c, Select |-> orig.Select]
      out == IF op = "ScanAll" THEN ClientScan(req) ELSE ClientQuery(req)
  IN out.Items \o (IF out.LastEvaluatedKey = NilKey THEN <<>>
                   ELSE ChainItems(out.LastEvaluatedKey))

\* C5: ScanAll and QueryAll return the concatenation in page order of every
\* page up to the first one without a cursor; a failed page request is the
\* last request made and the operation returns it with a nil list.
C5_AllPagesOrNothing ==
  op \in {"ScanAll", "QueryAll"} =>
    /\ \A i \in 1..Len(calls) :
         calls[i].err # "" =>
           /\ i = Len(calls)
           /\ ret.returned /\ ret.resultNil /\ ret.Items = <<>>
           /\ ret.errs = <<Wrap("", calls[i].err)>>
    /\ (ret.returned /\ FailedCalls("main") = {}) =>
         /\ ~ret.resultNil /\ ret.errs = <<>>
         /\ ret.Items = ChainItems(NilKey)
         /\ Len(calls) = Len(pages)

C5_Witness ==
  /\ op \in {"ScanAll", "QueryAll"} /\ ret.returned /\ ~ret.resultNil
  /\ Len(calls) >= 2 /\ calls[1].Count > 0 /\ calls[2].Count > 0
  /\ Len(ret.Items) >= 2

\* C6: UpdateIfExistsOrFail issues its existence read before any UpdateItem;
\* a read that finds nothing gives NotFound and no UpdateItem, a failed read
\* gives that failure and no UpdateItem, otherwise exactly one UpdateItem is
\* made and its outcome returned.
C6_ReadBeforeUpdate ==
  op = "UpdateIfExistsOrFail" =>
    LET m == CallsOf("main")
    IN /\ \A i \in 1..Len(m) :
            m[i].api = "UpdateItem" =>
              i = 2 /\ m[1].api = "GetItem" /\ m[1].err = "" /\ m[1].Item # NilItem
       /\ ret.returned =>
            /\ Len(m) >= 1 /\ m[1].api = "GetItem"
            /\ IF m[1].err # ""
                 THEN Len(m) = 1 /\ ret.errs = <<Wrap("", m[1].err)>>
               ELSE IF m[1].Item = NilItem
                 THEN Len(m) = 1 /\ ret.errs = <<ErrNotFound>>
               ELSE /\ Len(m) = 2 /\ m[2].api = "UpdateItem"
                    /\ ret.errs = IF m[2].err = "" THEN <<>> ELSE <<Wrap("", m[2].err)>>

C6_Witness ==
  /\ op = "UpdateIfExistsOrFail" /\ ret.returned
  /\ Len(CallsOf("main")) = 2 /\ ret.errs = <<>>

\* C7: GetOne returns NotFound when GetItem answers without an item, the
\* underlying failure unchanged when GetItem fails, the item when there is
\* one, and never a success with a nil item.
C7_GetOneNotFound ==
  (op = "GetOne" /\ ret.returned) =>
    /\ Len(calls) = 1 /\ calls[1].api = "GetItem"
    /\ calls[1].err # "" => ret.errs = <<Wrap("", calls[1].err)>> /\ ret.resultNil
    /\ (calls[1].err = "" /\ tableItem = NilItem) =>
         ret.errs = <<ErrNotFound>> /\ ret.resultNil
    /\ (calls[1].err = "" /\ tableItem # NilItem) =>
         ret.errs = <<>> /\ ret.Item = tableItem /\ ~ret.resultNil
    /\ ~(ret.errs = <<>> /\ ret.Item = NilItem)

C7_Witness ==
  /\ op = "GetOne" /\ ret.returned /\ tableItem = NilItem
  /\ calls[1].err = "" /\ ret.errs = <<ErrNotFound>>

\* C8: GetQueryCount issues exactly one Query per call, always with Select
\* COUNT, and returns the Count of that response (0 and the failure when the
\* request fails).
C8_OneCountQuery ==
  /\ (op = "GetQueryCount" /\ ret.returned) =>
       /\ Len(calls) = 1 /\ calls[1].api = "Query"
       /\ calls[1].Select = SelectCount
       /\ calls[1].ExclusiveStartKey = orig.ExclusiveStartKey
       /\ IF calls[1].err = ""
            THEN /\ ret.errs = <<>>
                 /\ ret.Count = calls[1].Count
                 /\ ret.Count = TotalMatches - SumSizes(pages, orig.ExclusiveStartKey)
            ELSE ret.Count = 0 /\ ret.errs = <<Wrap("", calls[1].err)>>
  /\ Paginating =>
       LET c == CallsOf("count")
       IN /\ Len(c) <= 1
          /\ pc.count \in {"send", "sent", "done"} => Len(c) = 1
          /\ \A i \in 1..Len(c) :
               /\ c[i].api = "Query" /\ c[i].Select = SelectCount
               /\ c[i].err = "" => count = c[i].Count

C8_Witness ==
  /\ op = "GetQueryCount" /\ ret.returned /\ orig.Select # SelectCount
  /\ calls[1].Select = SelectCount /\ ret.errs = <<>> /\ ret.Count > 0

\* the number of Queries the fetch loop makes when none of them fails
RECURSIVE QueriesNeeded(_, _)
QueriesNeeded(c, have) ==
  LET out == ClientQuery([ExclusiveStartKey |-> c, Select |-> orig.Select])
      got == Min(orig.Limit, have + Len(out.Items))
  IN IF out.LastEvaluatedKey = NilKey \/ got >= orig.Limit THEN 1
     ELSE 1 + QueriesNeeded(out.LastEvaluatedKey, got)

\* C9: QueryWithPagination returns only after both tasks have finished; a
\* failure of one task does not cut the other short, which has issued all of
\* its requests by then.
C9_ReturnsAfterBoth ==
  (Paginating /\ (pc.main = "returned" \/ ret.returned)) =>
    /\ pc.fetch = "done" /\ pc.count = "done"
    /\ wg = 0 /\ closed
    /\ Len(CallsOf("count")) = 1
    /\ LET f == CallsOf("fetch")
       IN /\ Len(f) >= 1
          /\ \A i \in 1..(Len(f) - 1) : f[i].err = ""
          /\ f[Len(f)].err = "" => Len(f) = QueriesNeeded(NilKey, 0)

C9_Witness ==
  /\ Paginating /\ ret.returned
  /\ Len(calls) = 3
  /\ calls[1].task = "count" /\ calls[1].err # ""
  /\ calls[2].task = "fetch" /\ calls[2].err = ""
  /\ calls[3].task = "fetch" /\ calls[3].err = ""

\* C10: with Limit = 0 the fetch task issues exactly one Query, even when the
\* response carries a cursor, and accumulates nothing; the count task still
\* runs, and a successful call returns no items with the count query's Count.
C10_LimitZero ==
  (Paginating /\ orig.Limit = 0) =>
    /\ Len(CallsOf("fetch")) <= 1
    /\ items = <<>>
    /\ ret.returned =>
         /\ Len(CallsOf("fetch")) = 1
         /\ Len(CallsOf("count")) = 1
         /\ ret.errs = <<>> =>
              /\ ret.Items = <<>> /\ ~ret.resultNil
              /\ ret.Count = CallsOf("count")[1].Count

C10_Witness ==
  /\ Succeeded /\ orig.Limit = 0
  /\ CallsOf("fetch")[1].LastEvaluatedKey # NilKey
  /\ TotalMatches > 0 /\ ret.Count > 0 /\ ret.Items = <<>>

\* the items the fetch loop holds after the first n responses of f
RECURSIVE AccAfter(_, _)
AccAfter(f, n) ==
  IF n = 0 THEN 0
  ELSE Min(orig.Limit,
           AccAfter(f, n - 1)
             + Len(ClientQuery([ExclusiveStartKey |-> f[n].ExclusiveStartKey,
                                Select |-> f[n].Select]).Items))

FetchLeftLoop == pc.fetch \in {"skip", "send", "sent", "done"}

\* C11: with Limit >= 0 the fetch task issues a further Query after a page
\* exactly when the response carries a cursor and fewer than Limit items are
\* accumulated, and that Query carries the LastEvaluatedKey of the response.
C11_FurtherQueryIff ==
  (Paginating /\ orig.Limit >= 0) =>
    LET f == CallsOf("fetch")
    IN /\ \A i \in 1..(Len(f) - 1) :
            /\ f[i].err = ""
            /\ f[i].LastEvaluatedKey # NilKey
            /\ AccAfter(f, i) < orig.Limit
            /\ f[i + 1].ExclusiveStartKey = f[i].LastEvaluatedKey
       /\ (pc.fetch = "loop" /\ Len(f) >= 1) =>
            /\ f[Len(f)].err = ""
            /\ f[Len(f)].LastEvaluatedKey # NilKey
            /\ AccAfter(f, Len(f)) < orig.Limit
            /\ Len(items) = AccAfter(f, Len(f))
            /\ lastEvaluatedKey = f[Len(f)].LastEvaluatedKey
       /\ (FetchLeftLoop /\ Len(f) >= 1 /\ f[Len(f)].err = "") =>
            \/ f[Len(f)].LastEvaluatedKey = NilKey
            \/ AccAfter(f, Len(f)) >= orig.Limit

C11_Witness ==
  /\ Paginating /\ orig.Limit > 0 /\ pc.fetch = "done"
  /\ LET f == CallsOf("fetch")
     IN /\ Len(f) = 1
        /\ f[1].err = "" /\ f[1].LastEvaluatedKey # NilKey
        /\ f[1].Select # SelectCount /\ f[1].Count > orig.Limit
        /\ AccAfter(f, 1) = orig.Limit

\* C12: for Limit >= 0 the fetch task never holds more than Limit items,
\* whatever the sizes of the pages.
C12_LimitBoundsItems ==
  (Paginating /\ orig.Limit >= 0) => Len(items) <= orig.Limit

C12_Witness ==
  /\ Paginating /\ orig.Limit > 0 /\ pc.fetch = "skip"
  /\ Len(items) = orig.Limit
  /\ LET f == CallsOf("fetch")
     IN /\ Len(f) = 2
        /\ f[1].Count > 0 /\ f[1].Count < orig.Limit
        /\ f[1].Count + f[2].Count > orig.Limit

\* C13: for Limit < 0 the fetch task truncates the first page to an empty
\* slice and stops after it: no runtime fault, no items, one Query.
C13_NegativeLimitNoFault ==
  (Paginating /\ orig.Limit < 0) =>
    /\ ~Crashed
    /\ items = <<>>
    /\ Len(CallsOf("fetch")) <= 1

\* a DeleteItem of another caller came between the existence read, which
\* found the item, and the update
DeletedInBetween ==
  /\ op = "UpdateIfExistsOrFail"
  /\ Len(calls) >= 2
  /\ calls[1].api = "GetItem" /\ calls[1].err = "" /\ calls[1].Item # NilItem
  /\ calls[2].api = "DeleteItem"

\* C14: when a DeleteItem on the same key comes between the existence read
\* and the update, UpdateItem is still issued although the item is gone, and
\* UpdateIfExistsOrFail reports the update's outcome, not NotFound.
C14_CheckThenActRace ==
  DeletedInBetween =>
    /\ pc.main = "update" => (tableItem = NilItem /\ ENABLED UpdateItem)
    /\ pc.main \in {"update", "returned"}
    /\ pc.main = "returned" =>
         /\ Len(calls) = 3
         /\ calls[3].api = "UpdateItem" /\ calls[3].Item = NilItem
         /\ ret.returned
         /\ ret.errs = IF calls[3].err = "" THEN <<>> ELSE <<Wrap("", calls[3].err)>>
         /\ ret.errs # <<ErrNotFound>>

C14_Witness ==
  /\ DeletedInBetween /\ ret.returned
  /\ calls[3].api = "UpdateItem" /\ calls[3].Item = NilItem
  /\ ret.errs = <<>>

\* C18: count-only mode never leaks out of the count query: every Query of
\* the fetch task carries the Select mode the caller supplied, and the
\* caller's request keeps its Select mode through QueryWithPagination and
\* GetQueryCount.
C18_SelectDoesNotLeak ==
  op \in {"QueryWithPagination", "GetQueryCount"} =>
    /\ input.Select = orig.Select
    /\ \A i \in 1..Len(calls) :
         calls[i].task = "fetch" => calls[i].Select = orig.Select

C18_Witness ==
  /\ Paginating /\ ret.returned /\ orig.Select # SelectCount
  /\ input.Select = orig.Select
  /\ Len(calls) = 3
  /\ calls[1].task = "fetch" /\ calls[1].Select = orig.Select
  /\ calls[2].task = "count" /\ calls[2].Select = SelectCount
  /\ calls[3].task = "fetch" /\ calls[3].Select = orig.Select

BothSucceeded ==
  /\ prev.returned /\ prev.errs = <<>>
  /\ ret.returned /\ ret.errs = <<>>

\* C15: the first request of ScanAll and QueryAll carries an empty cursor
\* whatever ExclusiveStartKey the request object held on entry, every later
\* request carries the LastEvaluatedKey of the preceding response, and two
\* successive calls with the same request object return equal lists.
C15_ReadsFromTheBeginning ==
  op \in {"ScanAll", "QueryAll"} =>
    /\ Len(calls) >= 1 => calls[1].ExclusiveStartKey = NilKey
    /\ \A i \in 2..Len(calls) :
         /\ calls[i - 1].err = ""
         /\ calls[i - 1].LastEvaluatedKey # NilKey
         /\ calls[i].ExclusiveStartKey = calls[i - 1].LastEvaluatedKey
    /\ BothSucceeded => (ret.Items = prev.Items /\ ret.resultNil = prev.resultNil)

C15_Witness ==
  /\ op \in {"ScanAll", "QueryAll"} /\ BothSucceeded
  /\ orig.ExclusiveStartKey # NilKey
  /\ Len(calls) = 2 /\ calls[1].ExclusiveStartKey = NilKey
  /\ Len(ret.Items) >= 2 /\ ret.Items = prev.Items

\* C17: QueryWithPagination called twice in sequence with the same request
\* object against an unchanged table returns the same items and the same
\* count; the cursor the first call leaves in the request does not reach the
\* second call's fetch query or count query.
C17_Repeatable ==
  (Paginating /\ BothSucceeded) =>
    (ret.Items = prev.Items /\ ret.Count = prev.Count)

\* errChan, the WaitGroup and the closer are used as C16 describes, and the
\* call is not stuck: it has returned or some step of it can be taken
CleanAndNotStuck ==
  /\ wg = Cardinality({t \in Tasks : pc[t] # "done"})
  /\ Len(errs) = Cardinality({t \in Tasks : pc[t] \in {"sent", "done"}
                                             /\ sending[t] # NoErr})
  /\ closed <=> pc.closer = "done"
  /\ closed => \A t \in Tasks : pc[t] = "done"
  /\ pc.main = "returned" => (closed /\ ret.returned)
  /\ pc.main = "returned" \/ ENABLED Next

\* C16: QueryWithPagination always terminates without deadlock: each task
\* sends one message on errChan, the caller receives both, the channel is
\* closed once, after both tasks finished and never before a send, and the
\* caller then returns.
C16_TerminatesCleanly ==
  (Paginating /\ pc.main # "idle") => CleanAndNotStuck

\* the same for the calls whose Limit is not negative
TerminatesWhenLimitNotNegative ==
  (Paginating /\ pc.main # "idle" /\ orig.Limit >= 0) => CleanAndNotStuck
====
